---- MODULE Spec2Model ----
(***************************************************************************)
(* Model of ipynb/struct-benchmark.ipynb: the notebook that loads a table  *)
(* of TM-align alignments, splits it positionally into train / test /      *)
(* validation, saves the three subsets under data/, builds a DeepBLAST     *)
(* model and fits it with a pytorch-lightning Trainer.                     *)
(*                                                                         *)
(* The state is the notebook kernel's variables, the part of the file      *)
(* system the notebook touches, and the position of the running fit.       *)
(* Every code cell is one action; trainer.fit is a sequence of batch steps.*)
(***************************************************************************)
EXTENDS Integers, Sequences, FiniteSets, TLC

\* ------------------------------------------------------------- bounds
\* longest small input table (lines)
MaxLen == 12
\* how many times the split cell is run in one kernel session
MaxRuns == 2
\* largest max_epochs of the generalised trainer arguments
MaxEpochs == 2
\* lines of a table that fills five training batches of ten records
ScenarioLen == 60
\* longest table the split is run on, apart from the notebook's own
MaxSplitLen == 29

\* ------------------------------------------------- program constants
\* '../data/tm_align_output_10k.tab': the table the notebook is written for
NAlignments == 10000
\* len(cols)
NCols == 8
\* n_alignments // 10
Tenth == 10
\* iloc[:parts * 8]
TrainParts == 8
\* iloc[parts * 8:parts * 9]
TestParts == 9
\* DeepBLAST(batch_size=10, ...)
BatchSize == 10
\* DeepBLAST(layers=2, ...)
Layers == 2
\* Trainer(max_epochs=5, ...)
MaxEpochsArg == 5
\* Trainer(check_val_every_n_epoch=1, ...)
CheckValEveryNEpoch == 1
\* Trainer(limit_train_batches=5, ...)
LimitTrainBatches == 5
\* Trainer(limit_val_batches=1)
LimitValBatches == 1
\* pytorch-lightning's default Trainer(num_sanity_val_steps=2): the
\* "Sanity Checking" pass of the recorded output
NumSanityValSteps == 2

Min(a, b) == IF a <= b THEN a ELSE b

\* ------------------------------------------------------------- paths
Fname == "../data/tm_align_output_10k.tab"
TrainPath == "data/train.txt"
TestPath == "data/test.txt"
ValidPath == "data/valid.txt"
SplitPaths == {TrainPath, TestPath, ValidPath}
\* any other file an earlier session left under data/
OtherPath == "data/notes.txt"
Paths == {Fname, OtherPath} \cup SplitPaths
DataDir == "data"
OutputDir == "struct_results"
\* where the recorded run kept its checkpoints
CheckpointDir == "lightning_logs/version/checkpoints"
Dirs == {DataDir, OutputDir, CheckpointDir}

\* the column names assigned to the loaded table
cols ==
  << "chain1_name", "chain2_name", "tmscore1", "tmscore2", "rmsd",
     "chain1", "chain2", "alignment" >>

\* ------------------------------------------------- text of table cells
\* The tokens the model's tables are written with, and how pandas reads each.
IntToks == {"1", "3", "101", "102"}
FloatToks == {"0.51", "0.48", "2.31", "0.90", "0.9", "1.0", "3.0", "101.0", "102.0", "9.9"}
\* a few of pandas' default na_values
NaToks == {"NA", "NaN", "nan", "NULL", "null", "N/A"}

\* int64 -> float64 (the value, written the way to_csv writes a float)
IntToFloat(t) ==
  CASE t = "1" -> "1.0"
    [] t = "3" -> "3.0"
    [] t = "101" -> "101.0"
    [] t = "102" -> "102.0"

\* the float a token parses to, named by the text to_csv writes for it
\* (the shortest repr): "0.90" is the float 0.9
ParseFloat(t) ==
  CASE t \in IntToks -> IntToFloat(t)
    [] t = "0.90" -> "0.9"
    [] OTHER -> t

IsNa(t) == t \in NaToks
IsInt(t) == t \in IntToks
IsNumeric(t) == t \in IntToks \cup FloatToks

\* A cell of a DataFrame: <<kind, value>>, kind one of int, float, str, nan.
NaN == << "nan", "" >>

\* ------------------------------------------------- lines of the table
RowA == << "1abcA", "2xyzB", "0.51", "0.48", "2.31", "MKV", "MRV", ":1:" >>
RowB == << "3defA", "4ghiB", "0.90", "1.0", "3", "ACD", "ACE", "::2" >>
\* names that read as numbers, and the sequence "NA"
RowC == << "101", "102", "1", "1", "3", "NA", "MKV", "1::" >>
\* seven columns
RowD == << "5jklA", "6mnoB", "0.51", "0.48", "2.31", "MKV", "MRV" >>
\* a tmscore1 that is no number
RowE == << "7pqrA", "8stuB", "0.5x", "0.48", "2.31", "MKV", "MRV", ":1:" >>
\* nine columns
RowF == << "9vwxA", "9yzaB", "0.51", "0.48", "2.31", "MKV", "MRV", ":1:", "extra" >>
\* a chain1 that is no sequence of residues
RowG == << "5badA", "6badB", "0.51", "0.48", "2.31", "B@D", "MRV", ":1:" >>
Pool == { RowA, RowB, RowC, RowD, RowE, RowF }
\* the content of a split file left behind by an earlier session
StaleLines == << << "9oldA", "9oldB", "9.9", "9.9", "9.9", "WWW", "WWW", "111" >> >>

\* A table of n lines alternating r1, r2 (r1 first).
Table(n, r1, r2) == [ i \in 1..n |-> IF i % 2 = 1 THEN r1 ELSE r2 ]
RowPairs ==
  { << r, r >> : r \in Pool } \cup { << RowA, r >> : r \in Pool }
    \cup { << r, RowA >> : r \in Pool }
SmallTables == { Table(n, p[1], p[2]) : n \in 0..MaxLen, p \in RowPairs }
\* the notebook's own table: 10000 well-formed lines
NotebookTable == Table(NAlignments, RowA, RowB)

\* --------------------------------------------- pd.read_table(fname, ...)
\* sep='\s+': runs of whitespace separate the fields, so an empty field
\* never comes out of a line.
Tokens(line) == SelectSeq(line, LAMBDA f : f # "")

\* The j-th field of tokenised line tk; a short line is padded with NaN.
Field(tk, j) == IF j <= Len(tk) THEN tk[j] ELSE "NA"

\* dtype inference of one column from its tokens.
ColKind(toks, j) ==
  LET col == { Field(toks[i], j) : i \in 1..Len(toks) }
      vals == { t \in col : ~IsNa(t) }
  IN  IF \A t \in vals : IsInt(t)
        THEN IF vals = col THEN "int" ELSE "float"
        ELSE IF \A t \in vals : IsNumeric(t) THEN "float" ELSE "str"

\* the dtypes of the first w columns
RECURSIVE ColKinds(_, _)
ColKinds(toks, w) ==
  IF w = 0 THEN << >> ELSE Append(ColKinds(toks, w - 1), ColKind(toks, w))

ParseCell(kind, t) ==
  IF IsNa(t) THEN NaN
  ELSE CASE kind = "int" -> << "int", t >>
         [] kind = "float" -> << "float", ParseFloat(t) >>
         [] OTHER -> << "str", t >>

\* The lines of the file as token sequences, blank lines skipped.
Tokenize(lines) ==
  SelectSeq([ i \in 1..Len(lines) |-> Tokens(lines[i]) ], LAMBDA tk : Len(tk) > 0)

\* the rows of typed cells of a table of the given width and dtypes
ParseRows(data, width, kinds) ==
  [ i \in 1..Len(data) |->
      [ j \in 1..width |-> ParseCell(kinds[j], Field(data[i], j)) ] ]

ReadError(e) == [ err |-> e, width |-> 0, idx |-> << >>, rows |-> << >> ]

\* The table of tokenised lines.  The first line sets the number of
\* columns, a longer line later is a tokenizing error, no line at all
\* leaves no columns to parse.  The dtypes are inferred once, from the
\* whole columns.
ParseData(data) ==
  IF Len(data) = 0 THEN ReadError("EmptyDataError")
  ELSE IF \E i \in 1..Len(data) : Len(data[i]) > Len(data[1])
    THEN ReadError("ParserError")
  ELSE CHOOSE r \in
         { [ err |-> "none", width |-> Len(data[1]),
             idx |-> [ i \in 1..Len(data) |-> i - 1 ],
             rows |-> ParseRows(data, Len(data[1]), kinds) ] :
           kinds \in { ColKinds(data, Len(data[1])) } } : TRUE

\* pd.read_table(path, header=None, sep='\s+'): [err, width, idx, rows],
\* a RangeIndex and the rows of typed cells.  The file is tokenised once.
ReadTable(f) ==
  IF ~f.exists THEN ReadError("FileNotFoundError")
  ELSE CHOOSE r \in { ParseData(data) : data \in { Tokenize(f.lines) } } : TRUE

\* -------------------------------------------------- df.iloc[lo:hi]
\* A positional slice with Python's clamping; rows keep their index label.
Iloc(df, lo, hi) ==
  LET n == Len(df.rows)
      a == Min(lo, n)
      b == Min(hi, n)
  IN  [ idx |-> SubSeq(df.idx, a + 1, b), rows |-> SubSeq(df.rows, a + 1, b) ]

\* ------------------ df.to_csv(path, sep='\t', index=None, header=None)
\* One line per row, the cells in column order, no index, no header; a NaN
\* is written as the empty string.
FormatCell(c) == IF c[1] = "nan" THEN "" ELSE c[2]
ToCsv(df) ==
  [ i \in 1..Len(df.rows) |->
      [ j \in 1..Len(df.rows[i]) |-> FormatCell(df.rows[i][j]) ] ]

\* (mutation: mode 'a', the lines are added to what the file holds)
OpenAppend(old, data) == [ exists |-> TRUE, lines |-> old.lines \o data ]
\* to_csv opens its path with mode 'w': whatever the file held is gone.
OpenWrite(old, data) == [ exists |-> TRUE, lines |-> data ]

\* ---------------------------------------------------------------- state
VARIABLES
  files,        \* path -> [exists, lines]: the table and the three split files
  dirs,         \* the directories that exist
  dir_entries,  \* what OutputDir and CheckpointDir hold
  stale,        \* the split files existed, with other content, before the session
  reads,        \* the paths read so far
  cfg,          \* the keyword arguments cell In[5] gives DeepBLAST
  targs,        \* the keyword arguments cell In[6] gives Trainer
  cell,         \* the last cell of the notebook that completed, 0..6
  err,          \* the exception that stopped the session, "none" if none
  align_df,     \* kernel variable align_df
  n_alignments, \* kernel variable n_alignments
  parts,        \* kernel variable parts
  train_df,     \* kernel variable train_df
  test_df,      \* kernel variable test_df
  valid_df,     \* kernel variable valid_df
  model,        \* kernel variable model: unbound, T5EncoderModel or DeepBLAST
  hparams,      \* what the DeepBLAST object keeps of its arguments
  runs,         \* how many times the split cell ran
  first_split,  \* parts and the three index ranges of the first run of the split cell
  phase,        \* trainer.fit: idle, sanity, train, val, done, aborted
  train_ds,     \* the records of the training data loader
  valid_ds,     \* the records of the validation data loader
  epoch,        \* training epochs completed
  batch,        \* batches done in the running pass
  global_step,  \* optimizer steps taken: the version of the trainable parameters
  n_sanity,     \* batches of the sanity check
  val_passes,   \* validation passes completed
  val_batches,  \* validation batches run, over the whole fit
  delivered,    \* the batches the data-loading workers have handed to the driver
  shared        \* the driver's language model and tokenizer: how often each was written

fsvars == << files, dirs, dir_entries, stale >>
dfvars == << align_df, n_alignments, parts, train_df, test_df, valid_df, runs, first_split >>
fitvars == << phase, train_ds, valid_ds, epoch, batch, global_step, n_sanity, val_passes, val_batches >>
\* what the worker processes of the data loaders can touch
wvars == << delivered, shared >>
vars ==
  << files, dirs, dir_entries, stale, reads, cfg, targs, cell, err, align_df,
     n_alignments, parts, train_df, test_df, valid_df, model, hparams, runs,
     first_split, phase, train_ds, valid_ds, epoch, batch, global_step,
     n_sanity, val_passes, val_batches, delivered, shared >>

\* --------------------------------------------------------- train / test / valid
\* (mutation: the split never leaves a subset empty)
PartsAtLeastOne(n) == IF n \div Tenth = 0 THEN 1 ELSE n \div Tenth
\* (mutation: the tenth is rounded up)
PartsRoundedUp(n) == (n + Tenth - 1) \div Tenth
\* parts = n_alignments // 10
Parts(n) == n \div Tenth
\* (mutation: a sampler whose position moves on with every run)
TrainDfResampled(df, p) == Iloc(df, runs, p * TrainParts + runs)
\* train_df = align_df.iloc[:parts * 8]
TrainDf(df, p) == Iloc(df, 0, p * TrainParts)
\* (mutation: the test slice begins one record late)
TestDfOffByOne(df, p) == Iloc(df, p * TrainParts + 1, p * TestParts)
\* test_df = align_df.iloc[parts * 8:parts * 9]
TestDf(df, p) == Iloc(df, p * TrainParts, p * TestParts)
\* (mutation: a split that consumes the table; the records an earlier run
\* handed out are gone at the next)
ValidDfDrained(df, p) == Iloc(df, p * TestParts + runs, Len(df.rows))
\* (mutation: validation is one tenth, the remainder is dropped)
ValidDfOneTenth(df, p) == Iloc(df, p * TestParts, p * Tenth)
\* valid_df = align_df.iloc[parts * 9:]
ValidDf(df, p) == Iloc(df, p * TestParts, Len(df.rows))

\* (mutation: the directory is taken to be there and is never made)
MkdirSkipped(ds, d) == ds
\* if not os.path.exists(d): os.mkdir(d)
MkdirIfAbsent(ds, d) == IF d \in ds THEN ds ELSE ds \cup { d }

\* ------------------------------------------------- DeepBLAST and Trainer
\* The keyword arguments of DeepBLAST(...) in the notebook.
NumWorkers == 30
NotebookConfig ==
  [ batch_size |-> BatchSize, num_workers |-> NumWorkers, layers |-> Layers,
    learning_rate |-> "5e-5", loss |-> "cross_entropy" ]
\* The keyword arguments of Trainer(...) in the notebook.
NotebookTrainerArgs ==
  [ max_epochs |-> MaxEpochsArg, check_val_every_n_epoch |-> CheckValEveryNEpoch,
    limit_train_batches |-> LimitTrainBatches, limit_val_batches |-> LimitValBatches ]

\* Other arguments the same cells can be run with.
Configs ==
  { [ batch_size |-> b, num_workers |-> NumWorkers, layers |-> l,
      learning_rate |-> "5e-5", loss |-> s ] :
      b \in { 2, BatchSize }, l \in { 0, 1, Layers },
      s \in { "cross_entropy", "not_a_real_loss" } }
TrainerArgs ==
  { [ max_epochs |-> e, check_val_every_n_epoch |-> k,
      limit_train_batches |-> t, limit_val_batches |-> v ] :
      e \in 1..MaxEpochs, k \in 1..2, t \in 1..2, v \in 1..2 }
    \cup { NotebookTrainerArgs }

\* the loss identifiers the builder knows
RecognizedLosses == { "cross_entropy" }

\* (mutation: layers is not checked)
BuildErrorLossOnly(c) ==
  IF c.loss \notin RecognizedLosses THEN "ConfigError" ELSE "none"
\* What the builder raises for a configuration, "none" when it accepts it.
BuildError(c) ==
  IF c.loss \notin RecognizedLosses \/ c.layers < 1 THEN "ConfigError" ELSE "none"

\* (mutation: the builder loads the three subsets when it is constructed)
BuilderReadsEagerly == SplitPaths
\* The files the builder reads: it keeps the three paths and reads none.
BuilderReads == {}

\* The Record Store's load applied to a split file: the table, and the
\* exception when it cannot be read as eight columns.
Load(f) ==
  LET r == ReadTable(f)
  IN  IF r.err # "none" THEN [ err |-> r.err, rows |-> << >> ]
      ELSE IF r.width # Len(cols) THEN [ err |-> "ValueError", rows |-> << >> ]
      ELSE [ err |-> "none", rows |-> r.rows ]

\* number of batches of bs records a data loader makes of n records
NumBatches(n, bs) == (n + bs - 1) \div bs

\* a sequence with symbols that are no residues
BadSeq == "B@D"
\* The tokenizer and the embedding provider take the two sequences of a
\* record; they raise on a record whose chain1 or chain2 is no string, or
\* is a string they cannot read.
Tokenizable(row) ==
  /\ row[6][1] = "str" /\ row[7][1] = "str"
  /\ row[6][2] # BadSeq /\ row[7][2] # BadSeq

\* the records of batch b (1-based) of a data set
BatchRows(rows, b, bs) == SubSeq(rows, (b - 1) * bs + 1, Min(b * bs, Len(rows)))
BatchRaises(rows, b, bs) ==
  \E i \in 1..Len(BatchRows(rows, b, bs)) : ~Tokenizable(BatchRows(rows, b, bs)[i])

NoFile == [ exists |-> FALSE, lines |-> << >> ]
File(lines) == [ exists |-> TRUE, lines |-> lines ]
NoDf == [ idx |-> << >>, rows |-> << >> ]
NoSplit == [ parts |-> 0, train |-> << >>, test |-> << >>, valid |-> << >> ]
NoHparams ==
  [ train_pairs |-> "", test_pairs |-> "", valid_pairs |-> "", output_directory |-> "" ]

\* A checkpoint file: the epoch and step in its name, and who wrote it.
Checkpoint(e, s, by) == [ epoch |-> e, step |-> s, by |-> by ]

\* The file system a session can start from: nothing there yet, or the
\* directories and files of an earlier session.
FreshFs == [ dirs |-> {}, stale |-> FALSE, ckpt |-> {}, out |-> {} ]
EmptyDirsFs == [ dirs |-> Dirs, stale |-> FALSE, ckpt |-> {}, out |-> {} ]
ReusedFs ==
  [ dirs |-> Dirs, stale |-> TRUE, ckpt |-> { Checkpoint(4, 25, "earlier") },
    out |-> { Checkpoint(0, 0, "earlier") } ]
FsStates == { FreshFs, EmptyDirsFs, ReusedFs }

\* the language model and the tokenizer as from_pretrained made them
Pretrained == [ lm |-> 0, tokenizer |-> 0 ]

InitWith(table, fs, c, t) ==
  /\ files = [ p \in Paths |->
               IF p = Fname THEN File(table)
               ELSE IF fs.stale THEN File(StaleLines) ELSE NoFile ]
  /\ dirs = fs.dirs
  /\ dir_entries = [ d \in { OutputDir, CheckpointDir } |->
                     IF d = CheckpointDir THEN fs.ckpt ELSE fs.out ]
  /\ stale = fs.stale
  /\ reads = {}
  /\ cfg = c
  /\ targs = t
  /\ cell = 0
  /\ err = "none"
  /\ align_df = NoDf
  /\ n_alignments = 0
  /\ parts = 0
  /\ train_df = NoDf
  /\ test_df = NoDf
  /\ valid_df = NoDf
  /\ model = "unbound"
  /\ hparams = NoHparams
  /\ runs = 0
  /\ first_split = NoSplit
  /\ phase = "idle"
  /\ train_ds = << >>
  /\ valid_ds = << >>
  /\ epoch = 0
  /\ batch = 0
  /\ global_step = 0
  /\ n_sanity = 0
  /\ val_passes = 0
  /\ val_batches = 0
  /\ delivered = {}
  /\ shared = Pretrained

\* The notebook as written, on small tables of every shape and on its own
\* table of 10000 lines.
Init ==
  \/ \E table \in SmallTables, fs \in FsStates :
       InitWith(table, fs, NotebookConfig, NotebookTrainerArgs)
  \/ InitWith(NotebookTable, ReusedFs, NotebookConfig, NotebookTrainerArgs)
  \/ \E n \in (MaxLen + 1)..MaxSplitLen :
       InitWith(Table(n, RowA, RowB), FreshFs, NotebookConfig, NotebookTrainerArgs)

\* The same cells with other arguments, on well-formed tables and tables
\* with an unreadable sequence.
TrainLens == { 5, Tenth, MaxLen + 1, ScenarioLen }
\* line k of the table (1-based) is the record with the unreadable chain1
TableWithBadLine(n, k) == [ i \in 1..n |-> IF i = k THEN RowG ELSE Table(n, RowA, RowB)[i] ]
TrainTables ==
  { Table(n, RowA, r) : n \in TrainLens, r \in { RowB, RowC } }
    \cup { TableWithBadLine(MaxLen + 1, 4) }
TrainInit ==
  \E table \in TrainTables, fs \in FsStates, c \in Configs, t \in TrainerArgs :
    InitWith(table, fs, c, t)

\* ------------------------------------------------------------- cell In[1]
\* align_df = pd.read_table(fname, header=None, sep='\s+')
\* align_df.columns = cols
\* n_alignments = align_df.shape[0]
LoadCorpus ==
  /\ cell = 0
  /\ err = "none"
  /\ reads' = reads \cup { Fname }
  /\ LET r == ReadTable(files[Fname])
     IN  IF r.err # "none"
           THEN /\ err' = r.err
                /\ UNCHANGED << cell, align_df, n_alignments >>
         ELSE IF r.width # Len(cols)
           THEN \* Length mismatch: align_df is bound, its columns are not renamed
                /\ err' = "ValueError"
                /\ align_df' = [ idx |-> r.idx, rows |-> r.rows ]
                /\ UNCHANGED << cell, n_alignments >>
         ELSE /\ align_df' = [ idx |-> r.idx, rows |-> r.rows ]
              /\ n_alignments' = Len(r.rows)
              /\ cell' = 1
              /\ err' = "none"
  /\ UNCHANGED << fsvars, cfg, targs, parts, train_df, test_df, valid_df, model,
                  hparams, runs, first_split, fitvars >>
  /\ UNCHANGED wvars

\* ------------------------------------------------------------- cell In[2]
\* The split, os.mkdir('data') when it is not there, and the three to_csv.
\* The cell can be run again whenever the kernel is not busy fitting.
SplitAndSave ==
  /\ cell >= 1
  /\ err = "none"
  /\ phase \in { "idle", "done" }
  /\ runs < MaxRuns
  /\ LET p == Parts(n_alignments)
         tr == TrainDf(align_df, p)
         te == TestDf(align_df, p)
         va == ValidDf(align_df, p)
     IN  /\ parts' = p
         /\ train_df' = tr
         /\ test_df' = te
         /\ valid_df' = va
         /\ dirs' = MkdirIfAbsent(dirs, DataDir)
         /\ files' = [ files EXCEPT
                         ![TrainPath] = OpenWrite(@, ToCsv(tr)),
                         ![TestPath] = OpenWrite(@, ToCsv(te)),
                         ![ValidPath] = OpenWrite(@, ToCsv(va)) ]
         /\ first_split' =
              IF runs = 0
                THEN [ parts |-> p, train |-> tr.idx, test |-> te.idx, valid |-> va.idx ]
                ELSE first_split
  /\ runs' = runs + 1
  /\ cell' = IF cell < 2 THEN 2 ELSE cell
  /\ UNCHANGED << dir_entries, stale, reads, cfg, targs, err, align_df,
                  n_alignments, model, hparams, fitvars >>
  /\ UNCHANGED wvars

\* ------------------------------------------------------------- cell In[3]
\* output_dir = 'struct_results'; os.mkdir(output_dir) when it is not there.
MakeOutputDir ==
  /\ cell = 2
  /\ err = "none"
  /\ dirs' = MkdirIfAbsent(dirs, OutputDir)
  /\ cell' = 3
  /\ UNCHANGED << files, dir_entries, stale, reads, cfg, targs, err, dfvars,
                  model, hparams, fitvars >>
  /\ UNCHANGED wvars

\* ------------------------------------------------------------- cell In[4]
\* tokenizer = T5Tokenizer.from_pretrained(...)
\* model = T5EncoderModel.from_pretrained(...)
LoadLM ==
  /\ cell = 3
  /\ err = "none"
  /\ model' = "T5EncoderModel"
  /\ cell' = 4
  /\ UNCHANGED << fsvars, reads, cfg, targs, err, dfvars, hparams, fitvars >>
  /\ UNCHANGED wvars

\* ------------------------------------------------------------- cell In[5]
\* model = DeepBLAST(train_pairs=..., ..., lm=model, tokenizer=tokenizer)
\* A rejected configuration raises before the assignment: model stays the
\* language model.
BuildModel ==
  /\ cell = 4
  /\ err = "none"
  /\ reads' = reads \cup BuilderReads
  /\ IF BuildError(cfg) # "none"
       THEN /\ err' = BuildError(cfg)
            /\ UNCHANGED << cell, model, hparams, dirs >>
       ELSE /\ model' = "DeepBLAST"
            /\ hparams' = [ train_pairs |-> TrainPath, test_pairs |-> TestPath,
                            valid_pairs |-> ValidPath, output_directory |-> OutputDir ]
            /\ dirs' = MkdirIfAbsent(dirs, OutputDir)
            /\ cell' = 5
            /\ err' = "none"
  /\ UNCHANGED << files, dir_entries, stale, cfg, targs, dfvars, fitvars >>
  /\ UNCHANGED wvars

\* ------------------------------------------------------------- cell In[6]
\* trainer = Trainer(max_epochs=5, ...); trainer.fit(model)

\* batches of one validation pass, of the sanity check, of one training epoch
ValBatchesPerPass ==
  Min(targs.limit_val_batches, NumBatches(Len(valid_ds), cfg.batch_size))
SanityBatches == Min(NumSanityValSteps, ValBatchesPerPass)
TrainBatchesPerEpoch ==
  Min(targs.limit_train_batches, NumBatches(Len(train_ds), cfg.batch_size))

\* (mutation: validation after every epoch, whatever the argument)
ValidationDueEveryEpoch(e) == TRUE
\* validation runs after the epochs whose number is a multiple of
\* check_val_every_n_epoch
ValidationDue(e) == e % targs.check_val_every_n_epoch = 0

\* (mutation: early stopping, the fit ends after the second validation pass)
FitFinishedEarly(e) == e >= targs.max_epochs \/ val_passes >= 1
\* the fit goes on until max_epochs epochs are done
FitFinished(e) == e >= targs.max_epochs

\* the directory the trainer's checkpoint callback writes to
TrainerCheckpointDir == CheckpointDir

\* (mutation: the exception is swallowed and the fit reports success)
AbortSwallowed(e) ==
  /\ phase' = "done"
  /\ err' = "none"
\* an exception leaves trainer.fit and stops the cell
Abort(e) ==
  /\ phase' = "aborted"
  /\ err' = e

\* (mutation: the fit resumes from the newest checkpoint it finds)
FitResumes(found) ==
  IF found = {} THEN [ epoch |-> 0, step |-> 0 ]
  ELSE LET c == CHOOSE x \in found : \A y \in found : y.epoch <= x.epoch
       IN  [ epoch |-> c.epoch + 1, step |-> c.step ]
\* trainer.fit(model) is called without ckpt_path: whatever the checkpoint
\* directory holds, the fit begins at epoch 0 and step 0.
FitStartsAt(found) == [ epoch |-> 0, step |-> 0 ]

\* fit begins: the validation data loader is made, for the sanity check.
FitStart ==
  /\ cell = 5
  /\ err = "none"
  /\ phase = "idle"
  /\ model = "DeepBLAST"
  /\ reads' = reads \cup { hparams.valid_pairs }
  /\ dirs' = MkdirIfAbsent(dirs, TrainerCheckpointDir)
  /\ epoch' = FitStartsAt(dir_entries[TrainerCheckpointDir]).epoch
  /\ global_step' = FitStartsAt(dir_entries[TrainerCheckpointDir]).step
  /\ LET r == Load(files[hparams.valid_pairs])
     IN  IF r.err # "none"
           THEN Abort(r.err) /\ UNCHANGED valid_ds
           ELSE /\ phase' = "sanity"
                /\ valid_ds' = r.rows
                /\ err' = "none"
  /\ UNCHANGED << files, dir_entries, stale, cfg, targs, cell, dfvars, model,
                  hparams, train_ds, batch, n_sanity, val_passes, val_batches >>
  /\ UNCHANGED wvars

\* one batch of the sanity check: a validation step, no optimizer step
SanityBatch ==
  /\ phase = "sanity"
  /\ batch < SanityBatches
  /\ IF BatchRaises(valid_ds, batch + 1, cfg.batch_size)
       THEN Abort("DataError") /\ UNCHANGED << batch, n_sanity >>
       ELSE /\ batch' = batch + 1
            /\ n_sanity' = n_sanity + 1
            /\ UNCHANGED << phase, err >>
  /\ UNCHANGED << fsvars, reads, cfg, targs, cell, dfvars, model, hparams,
                  train_ds, valid_ds, epoch, global_step, val_passes, val_batches >>
  /\ UNCHANGED wvars

\* the sanity check is over: the training data loader is made
StartTraining ==
  /\ phase = "sanity"
  /\ batch = SanityBatches
  /\ reads' = reads \cup { hparams.train_pairs }
  /\ LET r == Load(files[hparams.train_pairs])
     IN  IF r.err # "none"
           THEN Abort(r.err) /\ UNCHANGED << train_ds, batch >>
           ELSE /\ phase' = "train"
                /\ train_ds' = r.rows
                /\ batch' = 0
                /\ err' = "none"
  /\ UNCHANGED << fsvars, cfg, targs, cell, dfvars, model, hparams, valid_ds,
                  epoch, global_step, n_sanity, val_passes, val_batches >>
  /\ UNCHANGED wvars

\* one training batch: loss, backward, optimizer step
TrainBatch ==
  /\ phase = "train"
  /\ batch < TrainBatchesPerEpoch
  /\ IF BatchRaises(train_ds, batch + 1, cfg.batch_size)
       THEN Abort("DataError") /\ UNCHANGED << batch, global_step >>
       ELSE /\ batch' = batch + 1
            /\ global_step' = global_step + 1
            /\ UNCHANGED << phase, err >>
  /\ UNCHANGED << fsvars, reads, cfg, targs, cell, dfvars, model, hparams,
                  train_ds, valid_ds, epoch, n_sanity, val_passes, val_batches >>
  /\ UNCHANGED wvars

\* The end of an epoch: the checkpoint callback saves, keeping only the
\* last checkpoint it wrote, and the fit stops when max_epochs is reached.
FinishEpoch ==
  /\ epoch' = epoch + 1
  /\ batch' = 0
  /\ dir_entries' =
       [ dir_entries EXCEPT ![TrainerCheckpointDir] =
           { c \in @ : c.by # "fit" } \cup { Checkpoint(epoch, global_step, "fit") } ]
  /\ IF FitFinished(epoch + 1)
       THEN phase' = "done" /\ cell' = 6
       ELSE phase' = "train" /\ UNCHANGED cell

\* the batches of a training epoch are done: validation when it is due
TrainEpochEnd ==
  /\ phase = "train"
  /\ batch = TrainBatchesPerEpoch
  /\ IF ValidationDue(epoch + 1)
       THEN /\ phase' = "val"
            /\ batch' = 0
            /\ UNCHANGED << epoch, dir_entries, cell >>
       ELSE FinishEpoch
  /\ UNCHANGED << files, dirs, stale, reads, cfg, targs, err, dfvars, model,
                  hparams, train_ds, valid_ds, global_step, n_sanity,
                  val_passes, val_batches >>
  /\ UNCHANGED wvars

\* one validation batch: a validation step, no optimizer step
ValBatch ==
  /\ phase = "val"
  /\ batch < ValBatchesPerPass
  /\ IF BatchRaises(valid_ds, batch + 1, cfg.batch_size)
       THEN Abort("DataError") /\ UNCHANGED << batch, val_batches >>
       ELSE /\ batch' = batch + 1
            /\ val_batches' = val_batches + 1
            /\ UNCHANGED << phase, err >>
  /\ UNCHANGED << fsvars, reads, cfg, targs, cell, dfvars, model, hparams,
                  train_ds, valid_ds, epoch, global_step, n_sanity, val_passes >>
  /\ UNCHANGED wvars

\* the validation pass is done
ValEnd ==
  /\ phase = "val"
  /\ batch = ValBatchesPerPass
  /\ val_passes' = val_passes + 1
  /\ FinishEpoch
  /\ UNCHANGED << files, dirs, stale, reads, cfg, targs, err, dfvars, model,
                  hparams, train_ds, valid_ds, global_step, n_sanity, val_batches >>
  /\ UNCHANGED wvars

FitStep ==
  \/ SanityBatch
  \/ StartTraining
  \/ TrainBatch
  \/ TrainEpochEnd
  \/ ValBatch
  \/ ValEnd

Next ==
  \/ LoadCorpus
  \/ SplitAndSave
  \/ MakeOutputDir
  \/ LoadLM
  \/ BuildModel
  \/ FitStart
  \/ FitStep

\* The notebook as written.
Spec == Init /\ [][Next]_vars

\* The cells with other arguments; a fit that has begun runs on, batch
\* after batch, in the one driving thread.
TrainSpec == TrainInit /\ [][Next]_vars /\ WF_vars(FitStep)

\* ------------------------------------------- the data-loading workers
\* In Spec and TrainSpec a batch step stands for the worker's fetch and the
\* driver's step on that batch together.  LoaderSpec takes them apart: the
\* data loader of a pass runs num_workers worker processes, batch b of the
\* pass is the task of worker ((b - 1) mod num_workers) + 1, every worker
\* does its tasks in order and puts each result on the queue to the driver,
\* and the driver takes the batches in order, waiting for the one it needs.
\* (All tasks of the pass are handed out at its start; the real loader holds
\* some back, which allows fewer interleavings, never more.)
Workers == 1..cfg.num_workers
WorkerOf(b) == ((b - 1) % cfg.num_workers) + 1

\* the records of the running pass, and how many batches they make
PassRows == IF phase = "train" THEN train_ds ELSE valid_ds
PassBatches == NumBatches(Len(PassRows), cfg.batch_size)
\* the positions (1-based) of the records of batch b
BatchSlice(b) ==
  ((b - 1) * cfg.batch_size + 1)..Min(b * cfg.batch_size, Len(PassRows))

\* what a worker put on the queue: who, for which pass, which batch, and
\* the positions of the records it read for it
Delivery(w, b) ==
  [ worker |-> w, phase |-> phase, epoch |-> epoch, batch |-> b, rows |-> BatchSlice(b) ]
IsDelivered(b) ==
  \E d \in delivered : d.phase = phase /\ d.epoch = epoch /\ d.batch = b

\* (mutation: the workers are threads of the driver's process, and reading
\* a record through the tokenizer writes the tokenizer's cache)
WorkerWritesTokenizer(w) == { "tokenizer" }
\* The objects of the driver's process a worker writes: a worker is a
\* process of its own, what it writes is its own copy.
WorkerWrites(w) == {}

\* Worker w does its next task of the running pass.
WorkerFetch(w) ==
  /\ phase \in { "sanity", "train", "val" }
  /\ \E b \in 1..PassBatches :
       /\ WorkerOf(b) = w
       /\ ~IsDelivered(b)
       /\ \A a \in 1..(b - 1) : WorkerOf(a) = w => IsDelivered(a)
       /\ delivered' = delivered \cup { Delivery(w, b) }
  /\ shared' = [ o \in DOMAIN shared |->
                 IF o \in WorkerWrites(w) THEN shared[o] + 1 ELSE shared[o] ]
  /\ UNCHANGED << fsvars, reads, cfg, targs, cell, err, dfvars, model, hparams, fitvars >>

\* the driver's next batch of the running pass, if it has one to take
BatchDue ==
  \/ phase = "sanity" /\ batch < SanityBatches
  \/ phase = "train" /\ batch < TrainBatchesPerEpoch
  \/ phase = "val" /\ batch < ValBatchesPerPass

\* A step of the driver: it takes its next batch when a worker has
\* delivered it.
DriverStep ==
  /\ BatchDue => IsDelivered(batch + 1)
  /\ FitStep

\* DeepBLAST(batch_size=2, ...) with two workers and with the notebook's
\* thirty, on a table that makes several batches per pass.
LoaderConfigs ==
  { [ NotebookConfig EXCEPT !.batch_size = 2, !.num_workers = w ] : w \in { 2, NumWorkers } }
LoaderTrainerArgs ==
  { [ max_epochs |-> e, check_val_every_n_epoch |-> 1,
      limit_train_batches |-> t, limit_val_batches |-> 2 ] :
      e \in 1..MaxEpochs, t \in { 2, 3 } }
LoaderTables == { Table(MaxLen + 1, RowA, RowB), TableWithBadLine(MaxLen + 1, 4) }
LoaderInit ==
  \E table \in LoaderTables, c \in LoaderConfigs, t \in LoaderTrainerArgs :
    InitWith(table, FreshFs, c, t)

LoaderNext ==
  \/ LoadCorpus
  \/ SplitAndSave
  \/ MakeOutputDir
  \/ LoadLM
  \/ BuildModel
  \/ FitStart
  \/ \E w \in Workers : WorkerFetch(w)
  \/ DriverStep

\* The fit with its data-loading workers, in every interleaving.
LoaderSpec == LoaderInit /\ [][LoaderNext]_vars

\* ------------------------------------------------------------ properties
\* the index labels lo, lo+1, ..., hi-1
Range(lo, hi) == [ k \in 1..(hi - lo) |-> lo + k - 1 ]
Labels(df) == { df.idx[k] : k \in 1..Len(df.idx) }
SplitDone == runs >= 1

\* C1: after the split, len(train) + len(test) + len(validation) equals
\* len(corpus); the three subsets are pairwise disjoint, each a contiguous
\* run of positions, and train, test, validation laid end to end are the
\* corpus itself: every record once, in its original order.
C1_PartitionCoversCorpus ==
  SplitDone =>
    /\ Len(train_df.rows) + Len(test_df.rows) + Len(valid_df.rows) = Len(align_df.rows)
    /\ train_df.rows \o test_df.rows \o valid_df.rows = align_df.rows
    /\ train_df.idx \o test_df.idx \o valid_df.idx = align_df.idx
    /\ Labels(train_df) \cap Labels(test_df) = {}
    /\ Labels(train_df) \cap Labels(valid_df) = {}
    /\ Labels(test_df) \cap Labels(valid_df) = {}
    /\ \A df \in { train_df, test_df, valid_df } :
         /\ Len(df.idx) = Len(df.rows)
         /\ \A k \in 1..(Len(df.idx) - 1) : df.idx[k + 1] = df.idx[k] + 1
\* a corpus with a remainder, all three subsets non-empty
C1_Witness ==
  /\ SplitDone
  /\ n_alignments = 12
  /\ Len(train_df.rows) > 0 /\ Len(test_df.rows) > 0 /\ Len(valid_df.rows) > 1

\* C2: with unit = floor(n / 10), train is records [0, 8*unit), test is
\* records [8*unit, 9*unit), validation is records [9*unit, n); 10000
\* records give 8000, 1000 and 1000.
C2_SplitRanges ==
  SplitDone =>
    LET n == Len(align_df.rows)
        unit == n \div 10
    IN  /\ parts = unit
        /\ train_df.idx = Range(0, 8 * unit)
        /\ test_df.idx = Range(8 * unit, 9 * unit)
        /\ valid_df.idx = Range(9 * unit, n)
        /\ train_df.rows = SubSeq(align_df.rows, 1, 8 * unit)
        /\ test_df.rows = SubSeq(align_df.rows, 8 * unit + 1, 9 * unit)
        /\ valid_df.rows = SubSeq(align_df.rows, 9 * unit + 1, n)
        /\ n = 10000 =>
             /\ Len(train_df.rows) = 8000
             /\ Len(test_df.rows) = 1000
             /\ Len(valid_df.rows) = 1000
C2_Witness ==
  /\ SplitDone
  /\ n_alignments = 10000
  /\ Len(train_df.rows) = 8000
  /\ Len(test_df.rows) = 1000
  /\ Len(valid_df.rows) = 1000

\* C3: a corpus of fewer than ten records splits without an error into an
\* empty train, an empty test and a validation subset that is the whole
\* corpus in its order.
C3_ShortCorpus ==
  (SplitDone /\ Len(align_df.rows) < 10) =>
    /\ parts = 0
    /\ train_df.rows = << >> /\ train_df.idx = << >>
    /\ test_df.rows = << >> /\ test_df.idx = << >>
    /\ valid_df = align_df
    /\ files[TrainPath].lines = << >>
    /\ files[TestPath].lines = << >>
    /\ Len(files[ValidPath].lines) = Len(align_df.rows)
    /\ (cell = 2 => err = "none")
C3_Witness ==
  /\ SplitDone
  /\ cell = 2
  /\ err = "none"
  /\ n_alignments = 5
  /\ Len(train_df.rows) = 0 /\ Len(test_df.rows) = 0 /\ Len(valid_df.rows) = 5

\* C4: every run of the split on the same corpus gives what the first run
\* gave: the same unit and the same three ranges of positions.
C4_SplitDeterministic ==
  SplitDone =>
    /\ parts = first_split.parts
    /\ train_df.idx = first_split.train
    /\ test_df.idx = first_split.test
    /\ valid_df.idx = first_split.valid
\* the split has run twice, the second time after a whole fit
C4_Witness ==
  /\ runs = 2
  /\ phase = "done"
  /\ n_alignments > 10
  /\ first_split.parts = 1

\* A record of the data model: two names and three sequence strings that
\* are strings, three numbers that are numbers, nothing missing.
WellFormed(row) ==
  /\ Len(row) = Len(cols)
  /\ \A j \in { 1, 2, 6, 7, 8 } : row[j][1] = "str"
  /\ \A j \in { 3, 4, 5 } : row[j][1] \in { "int", "float" }
SplitOf(p) ==
  CASE p = TrainPath -> train_df
    [] p = TestPath -> test_df
    [] p = ValidPath -> valid_df

\* C5: what load reads from a written split file is the subset that was
\* written: the same records, cell by cell, in the same order, for every
\* subset of well-formed records.
C5_RoundTrip ==
  SplitDone =>
    \A p \in SplitPaths :
      (\A i \in 1..Len(SplitOf(p).rows) : WellFormed(SplitOf(p).rows[i])) =>
        /\ Load(files[p]).err = "none"
        /\ Load(files[p]).rows = SplitOf(p).rows

\* C6: after one run of the split cell or several, each split file holds
\* the lines of one write of its subset and nothing else, whatever the
\* file held before.
C6_WriteOverwrites ==
  SplitDone =>
    \A p \in SplitPaths :
      /\ files[p].exists
      /\ Len(files[p].lines) = Len(SplitOf(p).rows)
      /\ files[p].lines = ToCsv(SplitOf(p))
\* written twice over files an earlier session left
C6_Witness ==
  /\ runs = 2
  /\ stale
  /\ Len(train_df.rows) > 0
  /\ files[TrainPath].lines # StaleLines

Fitting == phase \in { "sanity", "train", "val" }

\* C7: a fit that has begun ends; when it ends without an error exactly
\* max_epochs training epochs are done, and no epoch is begun after that.
C7_FitStopsAtMaxEpochs ==
  /\ [](phase = "done" => (epoch = targs.max_epochs /\ err = "none"))
  /\ [](phase = "aborted" => err # "none")
  /\ [](phase \in { "train", "val" } => epoch < targs.max_epochs)
  /\ (Fitting ~> phase \in { "done", "aborted" })
C7_Witness ==
  /\ phase = "done"
  /\ targs.max_epochs = 2
  /\ epoch = 2
  /\ targs.check_val_every_n_epoch = 2

\* both data loaders have at least as many batches as the limits ask for
SubsetsLargeEnough ==
  /\ NumBatches(Len(train_ds), cfg.batch_size) >= targs.limit_train_batches
  /\ NumBatches(Len(valid_ds), cfg.batch_size) >= targs.limit_val_batches
IsCheckpoint(c) == c.by = "fit"

\* C8: with validation every epoch and subsets large enough, a finished
\* fit of E epochs with limits T and V has run E*T training batches and E
\* validation passes of V batches (5 epochs of 5 batches and 5 passes of 1
\* batch for the notebook's arguments), has written a checkpoint to
\* output_directory, and ended without an error.
C8_FitScenario ==
  (phase = "done" /\ targs.check_val_every_n_epoch = 1 /\ SubsetsLargeEnough) =>
    /\ epoch = targs.max_epochs
    /\ global_step = targs.max_epochs * targs.limit_train_batches
    /\ val_passes = targs.max_epochs
    /\ val_batches = targs.max_epochs * targs.limit_val_batches
    /\ err = "none"
    /\ \E c \in dir_entries[hparams.output_directory] : IsCheckpoint(c)

\* a step of the builder: the session is past cell In[4] and the step
\* moves it on, or stops it
BuildStep == cell = 4 /\ err = "none" /\ (cell' # cell \/ err' # err)

\* C9: the builder raises ConfigError, and binds no DeepBLAST model, when
\* the loss is not a recognized identifier or layers < 1, and only then.
C9_ConfigError ==
  [][ BuildStep =>
        IF cfg.loss # "cross_entropy" \/ cfg.layers < 1
          THEN err' = "ConfigError" /\ model' # "DeepBLAST" /\ cell' = 4
          ELSE err' = "none" /\ model' = "DeepBLAST" ]_vars
C9_Witness ==
  /\ err = "ConfigError"
  /\ cfg.layers = 0
  /\ cfg.loss = "cross_entropy"
  /\ model = "T5EncoderModel"

\* C10: the builder keeps the three paths and reads no split file; no
\* split file is read before the fit asks for its first batches, so a
\* ConfigError comes with no data loaded.
C10_BuilderReadsNothing ==
  /\ phase = "idle" => (reads \cap SplitPaths = {} /\ train_ds = << >> /\ valid_ds = << >>)
  /\ err = "ConfigError" => (phase = "idle" /\ reads \cap SplitPaths = {})
  /\ model = "DeepBLAST" =>
       /\ hparams.train_pairs = TrainPath
       /\ hparams.test_pairs = TestPath
       /\ hparams.valid_pairs = ValidPath
  /\ Fitting => ValidPath \in reads
C10_Witness ==
  /\ err = "ConfigError"
  /\ cfg.loss = "not_a_real_loss"
  /\ cfg.layers = 2
  /\ files[TrainPath].exists
  /\ Len(files[TrainPath].lines) > 0

\* the lines of the table file, as fields
TableLines == Tokenize(files[Fname].lines)
\* every line has the eight columns
EightColumns == \A i \in 1..Len(TableLines) : Len(TableLines[i]) = Len(cols)
\* every tmscore1, tmscore2 and rmsd there is reads as a float (a missing
\* value is the float NaN)
NumericColumnsParse ==
  \A i \in 1..Len(TableLines) : \A j \in { 3, 4, 5 } :
    j <= Len(TableLines[i]) => (IsNumeric(TableLines[i][j]) \/ IsNa(TableLines[i][j]))
LoadAttempted == Fname \in reads
LoadFailed == LoadAttempted /\ cell = 0 /\ err # "none"

\* C11: load of a table with a line that has not eight columns, or with a
\* tmscore1, tmscore2 or rmsd that is no float, fails; a failed load
\* binds no corpus and leaves the file system as it was.
C11_FormatError ==
  /\ (LoadAttempted /\ (~EightColumns \/ ~NumericColumnsParse)) => LoadFailed
  /\ LoadFailed =>
       /\ align_df = NoDf
       /\ n_alignments = 0
       /\ runs = 0
       /\ dirs \in { FreshFs.dirs, EmptyDirsFs.dirs }
       /\ \A p \in SplitPaths : files[p] \in { NoFile, File(StaleLines) }

\* the fit has a batch to run next, and the records of that batch
BatchPending ==
  \/ phase = "sanity" /\ batch < SanityBatches
  \/ phase = "train" /\ batch < TrainBatchesPerEpoch
  \/ phase = "val" /\ batch < ValBatchesPerPass
NextBatch ==
  BatchRows(IF phase = "train" THEN train_ds ELSE valid_ds, batch + 1, cfg.batch_size)
BadRecordNext ==
  BatchPending /\ \E i \in 1..Len(NextBatch) : ~Tokenizable(NextBatch[i])
\* every record of the first b batches of a data set can be tokenised
BatchesReadable(rows, b) ==
  \A i \in 1..Min(b * cfg.batch_size, Len(rows)) : Tokenizable(rows[i])

\* C12: when the next batch holds a record the tokenizer raises on, the
\* step that takes it ends the fit with DataError, counting no batch and
\* making no optimizer step; no step follows an aborted fit (no further
\* batch, no retry), and a fit that ended in success handled readable
\* records only (none was skipped).
C12_DataErrorAborts ==
  /\ [][ BadRecordNext =>
           /\ phase' = "aborted" /\ err' = "DataError"
           /\ batch' = batch /\ global_step' = global_step /\ epoch' = epoch
           /\ n_sanity' = n_sanity /\ val_batches' = val_batches ]_vars
  /\ [][ phase # "aborted" ]_vars
  /\ [](err = "DataError" => phase = "aborted")
  /\ [](phase = "done" =>
          /\ BatchesReadable(train_ds, TrainBatchesPerEpoch)
          /\ BatchesReadable(valid_ds, ValBatchesPerPass))
\* the second training batch held the unreadable record
C12_Witness ==
  /\ phase = "aborted"
  /\ err = "DataError"
  /\ global_step = 1
  /\ batch = 1
  /\ n_sanity >= 1

\* C13: a validation pass runs at the end of training epoch e exactly when
\* e is a multiple of check_val_every_n_epoch, so after E epochs there were
\* E div check_val_every_n_epoch passes; no step of a validation pass (or
\* of the sanity check) makes an optimizer step.
C13_ValidationSchedule ==
  /\ [][ (phase \in { "sanity", "val" }) => global_step' = global_step ]_vars
  /\ [][ epoch' # epoch =>
           /\ epoch' = epoch + 1
           /\ (phase = "val") <=> ((epoch + 1) % targs.check_val_every_n_epoch = 0)
           /\ (phase = "train") <=> ((epoch + 1) % targs.check_val_every_n_epoch # 0) ]_vars
  /\ [][ (phase # "val" /\ phase' = "val") =>
           /\ phase = "train"
           /\ batch = TrainBatchesPerEpoch
           /\ (epoch + 1) % targs.check_val_every_n_epoch = 0 ]_vars
  /\ [][ val_passes' # val_passes =>
           (phase = "val" /\ val_passes' = val_passes + 1 /\ epoch' = epoch + 1) ]_vars
  /\ [](phase \in { "train", "done" } =>
          val_passes = epoch \div targs.check_val_every_n_epoch)
\* two epochs, validation every second epoch: one pass, after the second
C13_Witness ==
  /\ phase = "done"
  /\ targs.check_val_every_n_epoch = 2
  /\ epoch = 2
  /\ val_passes = 1
  /\ val_batches >= 1
  /\ global_step >= 2

\* everything but the queue the workers deliver to
drivervars ==
  << fsvars, reads, cfg, targs, cell, err, dfvars, model, hparams, fitvars, shared >>
\* a step of a worker
WorkerStep == delivered' # delivered
\* the positions of the records of batch b of the pass a delivery is for
SliceOf(d) ==
  LET rows == IF d.phase = "train" THEN train_ds ELSE valid_ds
  IN  ((d.batch - 1) * cfg.batch_size + 1)..Min(d.batch * cfg.batch_size, Len(rows))
SamePass(d, e) == d.phase = e.phase /\ d.epoch = e.epoch

\* C14: in every interleaving of the driver with the workers, the
\* optimizer steps are the driver's training steps and none is a worker's;
\* a worker's step changes nothing but the queue it delivers to; the
\* language model and the tokenizer stay as they were loaded; every worker
\* reads the records of its own batches only, and the slices of one pass
\* do not overlap; the driver takes a batch only once it is delivered.
C14_WorkersIsolated ==
  /\ [][ global_step' # global_step =>
           /\ ~WorkerStep
           /\ phase = "train"
           /\ global_step' = global_step + 1
           /\ batch' = batch + 1 ]_vars
  /\ [][ WorkerStep => UNCHANGED drivervars ]_vars
  /\ [](shared = Pretrained)
  /\ [](\A d \in delivered :
          /\ d.worker \in Workers
          /\ d.worker = WorkerOf(d.batch)
          /\ d.rows = SliceOf(d)
          /\ \A e \in delivered :
               (SamePass(d, e) /\ e.batch # d.batch) => d.rows \cap e.rows = {})
  /\ [][ batch' = batch + 1 => IsDelivered(batch + 1) ]_vars
\* two workers: the first has delivered batches 1 and 3, the driver has
\* done its step on batch 1 and waits for the second worker's batch 2
C14_Witness ==
  /\ cfg.num_workers = 2
  /\ phase = "train"
  /\ batch = 1
  /\ global_step = 1
  /\ IsDelivered(3)
  /\ ~IsDelivered(2)

\* a run of the split cell, and the run of the output set-up cell
SplitStep == runs' # runs
OutputDirStep == cell = 2 /\ cell' = 3

\* C15: once the split cell has run data/ exists, once the output set-up
\* cell has run output_dir exists, whether they were there before or not;
\* both cells end without an error, no directory ever goes away, and the
\* two cells leave what the directories held, apart from the three split
\* files that are written, as it was.
C15_MkdirIfAbsent ==
  /\ [](runs >= 1 => DataDir \in dirs)
  /\ [](cell >= 3 => OutputDir \in dirs)
  /\ [][ dirs \subseteq dirs' ]_vars
  /\ [][ (SplitStep \/ OutputDirStep) =>
           /\ err' = "none"
           /\ dir_entries' = dir_entries
           /\ files'[OtherPath] = files[OtherPath]
           /\ dirs' \in { dirs, dirs \cup { DataDir }, dirs \cup { OutputDir } } ]_vars
\* both directories were there, each holding a file of an earlier session
C15_Witness ==
  /\ stale
  /\ runs >= 1
  /\ cell = 3
  /\ files[OtherPath] = File(StaleLines)
  /\ dir_entries[OutputDir] = ReusedFs.out
  /\ { DataDir, OutputDir } \subseteq dirs

\* the table has been loaded
Loaded == cell >= 1

\* C16: once loaded, align_df and n_alignments are never changed, by the
\* split, the writes, the builder or the fit; the table file is never
\* written; and a later run of the split cell, whatever ran in between,
\* leaves the three subsets and the three files exactly as the run before
\* left them.
C16_CorpusImmutable ==
  /\ [][ Loaded => (align_df' = align_df /\ n_alignments' = n_alignments) ]_vars
  /\ [][ files'[Fname] = files[Fname] ]_vars
  /\ [](Loaded => n_alignments = Len(align_df.rows))
  /\ [][ (runs >= 1 /\ runs' = runs + 1) =>
           /\ parts' = parts
           /\ train_df' = train_df
           /\ test_df' = test_df
           /\ valid_df' = valid_df
           /\ \A p \in SplitPaths : files'[p] = files[p] ]_vars
\* the split cell ran again after the model was built and fitted
C16_Witness ==
  /\ runs = 2
  /\ cell = 6
  /\ phase = "done"
  /\ global_step >= MaxEpochsArg
  /\ n_alignments = Len(align_df.rows)
  /\ Len(test_df.rows) >= 1

\* what the checkpoint directory held before the session
EarlierCheckpoints == { c \in dir_entries[TrainerCheckpointDir] : c.by = "earlier" }

\* C17: whatever checkpoints the checkpoint directory holds when the fit
\* begins, the fit begins at epoch 0 and step 0, runs max_epochs epochs
\* with all their optimizer steps, and leaves the checkpoints it found in
\* place beside its own.
C17_NeverResumes ==
  /\ [][ (phase = "idle" /\ phase' # "idle") =>
           (epoch' = 0 /\ global_step' = 0 /\ dir_entries' = dir_entries) ]_vars
  /\ [][ EarlierCheckpoints' = EarlierCheckpoints ]_vars
  /\ [](phase = "done" =>
          /\ epoch = targs.max_epochs
          /\ global_step = targs.max_epochs * TrainBatchesPerEpoch
          /\ \E c \in dir_entries[TrainerCheckpointDir] :
               c.by = "fit" /\ c.step = global_step)
\* the recorded run: the directory held a checkpoint of an earlier run at
\* epoch 4, and five epochs of five batches were run
C17_Witness ==
  /\ phase = "done"
  /\ targs = NotebookTrainerArgs
  /\ Checkpoint(4, 25, "earlier") \in dir_entries[TrainerCheckpointDir]
  /\ epoch = MaxEpochsArg
  /\ global_step = MaxEpochsArg * LimitTrainBatches
  /\ val_passes = MaxEpochsArg

\* C18: with unit = n div 10, after the split len(train) = 8 * len(test),
\* len(test) = unit, and len(validation) = unit + n mod 10, which lies in
\* unit .. unit + 9 and is never less than len(test): the remainder goes
\* to validation and nowhere else.
C18_SizeRelations ==
  SplitDone =>
    LET n == n_alignments
        unit == n \div 10
    IN  /\ Len(train_df.rows) = 8 * Len(test_df.rows)
        /\ Len(test_df.rows) = unit
        /\ unit <= Len(valid_df.rows) /\ Len(valid_df.rows) <= unit + 9
        /\ Len(valid_df.rows) >= Len(test_df.rows)
        /\ Len(valid_df.rows) = unit + (n % 10)
        /\ Len(train_df.rows) + Len(test_df.rows) = 9 * unit
\* 29 records: 16, 2 and 11, the largest remainder
C18_Witness ==
  /\ SplitDone
  /\ n_alignments = 29
  /\ Len(train_df.rows) = 16
  /\ Len(test_df.rows) = 2
  /\ Len(valid_df.rows) = 11

====
